---- MODULE Spec2Model ----
(***************************************************************************)
(* Model of the gpsm host-side serial driver (src/core):                   *)
(*   - SerialMessageHandler: frame encoder, receive state machine,         *)
(*     dispatch, outbound send;                                            *)
(*   - DeviceManager: device registry and the four-phase handshake.        *)
(*                                                                         *)
(* Several specifications are defined over the same variables:                 *)
(*   SpecCodec  one SerialMessageHandler whose decoder is fed a byte       *)
(*              stream in chunks (process_data), the stream being built    *)
(*              with format_message;                                       *)
(*   Spec       a DeviceManager, the links it creates and the handshake    *)
(*              handler; the devices on the ports send whole frames.       *)
(* Bytes are naturals in 0..255; the buffer is indexed from 0 as in the    *)
(* source.                                                                 *)
(***************************************************************************)
EXTENDS Naturals, Integers, Sequences, FiniteSets, TLC

VARIABLES
    \* ---- codec harness (SpecCodec) ----
    tc,         \* the input of the run: which frames are encoded and how the stream is built
    phase,      \* "encode" before format_message has run, "feed" afterwards
    encoded,    \* results of format_message, one per frame of tc
    wire,       \* bytes not yet read from the port
    dec,        \* decoder fields of the handler: message_state, bufferIndex, buffer, expected_length
    emitted,    \* frames handed to call_command, in order
    events,     \* the decoder's log lines: "InvalidLength", "ChecksumMismatch", ...
    \* ---- device manager (Spec) ----
    devices,    \* DeviceManager.devices: name -> device_info
    handlers,   \* DeviceManager.handlers: list of link ids
    link,       \* link id -> fields of the SerialMessageHandler
    pc          \* what the thread calling the manager is doing: "idle" or "discover"

codecVars == <<tc, phase, encoded, wire, dec, emitted, events>>
mgrVars == <<devices, handlers, link, pc>>
vars == <<tc, phase, encoded, wire, dec, emitted, events, devices, handlers, link, pc>>

-----------------------------------------------------------------------------
(* Program constants *)

START_BYTE == 170

MAX_BUFFER_SIZE == 64

HANDSHAKE_COMMAND == 255

Byte == 0..255

-----------------------------------------------------------------------------
(* Bounds of the model *)

MaxPayloadLen == 2

MaxFrames == 2

MaxChunk == 3

MaxGarbage == 2

MaxLinks == 2       \* SerialMessageHandler objects created in a run

-----------------------------------------------------------------------------
(* Bit operations on bytes *)

RECURSIVE BitXor(_, _)
BitXor(a, b) ==
    IF a = 0 THEN b
    ELSE IF b = 0 THEN a
    ELSE (((a % 2) + (b % 2)) % 2) + (2 * BitXor(a \div 2, b \div 2))

RECURSIVE Pow2(_)
Pow2(n) == IF n = 0 THEN 1 ELSE 2 * Pow2(n - 1)

\* Python slice data[lo:hi] of a 1-indexed sequence standing for a 0-indexed one.
Slice(s, lo, hi) == IF hi <= lo THEN <<>> ELSE SubSeq(s, lo + 1, hi)

-----------------------------------------------------------------------------
(* SerialMessageHandler: checksum, length check, encoder *)

\* checksum ^= byte over data[lo..hi]. XOR is associative with identity 0, so the
\* loop's left-to-right result is computed here by halving the range, which keeps
\* the evaluation shallow for frames of MAX_BUFFER_SIZE bytes and more.
RECURSIVE XorRange(_, _, _)
XorRange(data, lo, hi) ==
    IF lo > hi THEN 0
    ELSE IF lo = hi THEN data[lo]
    ELSE LET mid == (lo + hi) \div 2
         IN  BitXor(XorRange(data, lo, mid), XorRange(data, mid + 1, hi))

\* calculate_checksum leaving out the first byte (the start byte).
calculate_checksum_nostart(data) == XorRange(data, 2, Len(data))

calculate_checksum(data) == XorRange(data, 1, Len(data))

is_valid_length_strict(length) == 4 < length /\ length < MAX_BUFFER_SIZE

is_valid_length(length) == 4 <= length /\ length <= MAX_BUFFER_SIZE

\* format_message without the checksum byte counted in the length field.
format_message_short(command_id, payload) ==
    LET length == 3 + Len(payload)
        message == <<START_BYTE, length, command_id>> \o payload
    IN  IF length > 255
        THEN [ok |-> FALSE, message |-> <<>>]
        ELSE [ok |-> TRUE, message |-> Append(message, calculate_checksum(message))]

\* bytearray([START_BYTE, length]) raises ValueError when length > 255; nothing
\* compares the payload size with MAX_BUFFER_SIZE.
format_message(command_id, payload) ==
    LET length == 3 + Len(payload) + 1
        message == <<START_BYTE, length, command_id>> \o payload
    IN  IF length > 255
        THEN [ok |-> FALSE, message |-> <<>>]
        ELSE [ok |-> TRUE, message |-> Append(message, calculate_checksum(message))]

-----------------------------------------------------------------------------
(* SerialMessageHandler: receive state machine *)

\* Decoder fields with a receive buffer one byte shorter than the longest frame.
NewDecoder_short ==
    [message_state |-> "WAITING_FOR_START",
     bufferIndex |-> 0,
     buffer |-> [i \in 0..(MAX_BUFFER_SIZE - 2) |-> 0],
     expected_length |-> 0]

\* Decoder fields as __init__ leaves them.
NewDecoder ==
    [message_state |-> "WAITING_FOR_START",
     bufferIndex |-> 0,
     buffer |-> [i \in 0..(MAX_BUFFER_SIZE - 1) |-> 0],
     expected_length |-> 0]

reset_buffer(d) == [d EXCEPT !.bufferIndex = 0]

add_to_buffer(d, byte_val) ==
    [d EXCEPT !.buffer[d.bufferIndex] = byte_val, !.bufferIndex = d.bufferIndex + 1]

\* bytes buffer[lo:hi] as a sequence
BufferSlice(d, lo, hi) == [i \in 1..(IF hi > lo THEN hi - lo ELSE 0) |-> d.buffer[lo + i - 1]]

\* validate_and_process_message accepting every complete frame.
validate_and_process_message_nocheck(d) ==
    LET length == d.buffer[1]
    IN  IF length < 4
        THEN [out |-> <<>>, log |-> <<"TooShort">>]
        ELSE [out |-> << <<d.buffer[2], BufferSlice(d, 3, length - 1)>> >>, log |-> <<>>]

\* validate_and_process_message taking the payload up to the end of the frame.
validate_and_process_message_slice(d) ==
    LET length == d.buffer[1]
    IN  IF length < 4
        THEN [out |-> <<>>, log |-> <<"TooShort">>]
        ELSE IF d.buffer[length - 1] = calculate_checksum(BufferSlice(d, 0, length - 1))
             THEN [out |-> << <<d.buffer[2], BufferSlice(d, 3, length)>> >>, log |-> <<>>]
             ELSE [out |-> <<>>, log |-> <<"ChecksumMismatch">>]

\* The frames handed to call_command (none or one) and the lines logged.
validate_and_process_message(d) ==
    LET length == d.buffer[1]
    IN  IF length < 4
        THEN [out |-> <<>>, log |-> <<"TooShort">>]
        ELSE LET received_checksum == d.buffer[length - 1]
                 calculated_checksum == calculate_checksum(BufferSlice(d, 0, length - 1))
             IN  IF received_checksum = calculated_checksum
                 THEN [out |-> << <<d.buffer[2],
                                    IF length > 4 THEN BufferSlice(d, 3, length - 1) ELSE <<>> >> >>,
                       log |-> <<>>]
                 ELSE [out |-> <<>>, log |-> <<"ChecksumMismatch">>]

\* The overflow check at the end of the loop body of process_data.
SanityCheck(r) ==
    IF r.d.bufferIndex >= MAX_BUFFER_SIZE
    THEN [r EXCEPT !.d = reset_buffer([r.d EXCEPT !.message_state = "WAITING_FOR_START"]),
                   !.log = Append(r.log, "Overflow")]
    ELSE r

\* The start-byte branch taking every byte for a start byte.
WaitingForStart_any(r, byte_val) ==
    [r EXCEPT !.d = [add_to_buffer(reset_buffer(r.d), byte_val)
                        EXCEPT !.message_state = "WAITING_FOR_LENGTH"]]

WaitingForStart(r, byte_val) ==
    IF byte_val = START_BYTE
    THEN [r EXCEPT !.d = [add_to_buffer(reset_buffer(r.d), byte_val)
                            EXCEPT !.message_state = "WAITING_FOR_LENGTH"]]
    ELSE r

WaitingForLength(r, byte_val) ==
    IF is_valid_length(byte_val)
    THEN [r EXCEPT !.d = [add_to_buffer(r.d, byte_val)
                            EXCEPT !.expected_length = byte_val,
                                   !.message_state = "COLLECTING_DATA"]]
    ELSE [r EXCEPT !.d.message_state = "WAITING_FOR_START",
                   !.log = Append(r.log, "InvalidLength")]

\* The collecting branch that forgets to leave COLLECTING_DATA after a frame.
CollectingData_stay(r, byte_val) ==
    LET d1 == add_to_buffer(r.d, byte_val)
    IN  IF d1.bufferIndex >= d1.expected_length
        THEN LET v == validate_and_process_message(d1)
             IN  [r EXCEPT !.d = d1, !.out = r.out \o v.out, !.log = r.log \o v.log]
        ELSE [r EXCEPT !.d = d1]

CollectingData(r, byte_val) ==
    IF r.d.bufferIndex \notin DOMAIN r.d.buffer
    THEN [r EXCEPT !.raised = TRUE]     \* add_to_buffer: IndexError
    ELSE LET d1 == add_to_buffer(r.d, byte_val)
         IN  IF d1.bufferIndex >= d1.expected_length
             THEN LET v == validate_and_process_message(d1)
                  IN  [r EXCEPT !.d = [d1 EXCEPT !.message_state = "WAITING_FOR_START"],
                                !.out = r.out \o v.out,
                                !.log = r.log \o v.log]
             ELSE [r EXCEPT !.d = d1]

\* One iteration of the loop of process_data.
process_byte(r, byte_val) ==
    LET r1 == CASE r.d.message_state = "WAITING_FOR_START" -> WaitingForStart(r, byte_val)
                [] r.d.message_state = "WAITING_FOR_LENGTH" -> WaitingForLength(r, byte_val)
                [] r.d.message_state = "COLLECTING_DATA" -> CollectingData(r, byte_val)
                [] OTHER -> r
    IN  IF r1.raised THEN r1 ELSE SanityCheck(r1)

RECURSIVE process_loop(_, _)
process_loop(r, data) ==
    IF data = <<>> \/ r.raised THEN r
    ELSE process_loop(process_byte(r, Head(data)), Tail(data))

\* process_data(data) on decoder fields d: the fields afterwards, the frames
\* handed to call_command, the lines logged, and whether an exception left the loop.
process_data(d, data) ==
    process_loop([d |-> d, out |-> <<>>, log |-> <<>>, raised |-> FALSE], data)

-----------------------------------------------------------------------------
(* Inputs of the codec runs *)

PayloadBytes == {0, 170, 200}              \* 0x00, 0xAA, 0xC8

FillBytes == {0, 170}

SeqCmds == {2, 170}                        \* 0x02 and the start byte as a command

GarbageBytes == {0, 1, 4, 255}             \* no 0xAA among them

Fill(b, n) == [i \in 1..n |-> b]

ShortPayloads == UNION {[1..n -> PayloadBytes] : n \in 0..MaxPayloadLen}

\* payloads at and just below the largest size MAX_BUFFER_SIZE - 4
LongPayloads == {Fill(b, n) : b \in FillBytes, n \in {MAX_BUFFER_SIZE - 5, MAX_BUFFER_SIZE - 4}}

\* payloads beyond the size bound: one byte too long, and too long for the length byte
OversizePayloads == {Fill(0, n) : n \in {MAX_BUFFER_SIZE - 3, 251, 252}}

\* empty, a payload that is itself a frame, and the largest payload, all of 0xAA
SeqPayloads == {<<>>, <<170, 4, 2, 172>>, Fill(170, MAX_BUFFER_SIZE - 4)}

SeqFrames == {<<c, p>> : c \in SeqCmds, p \in SeqPayloads}

Case(kind, frames, prefix, flipAt, flipBit) ==
    [kind |-> kind, frames |-> frames, prefix |-> prefix, flipAt |-> flipAt, flipBit |-> flipBit]

\* one frame, sent as encoded
RoundTripCases ==
    {Case("frames", << <<c, p>> >>, <<>>, 0, 0) : c \in Byte, p \in {<<>>, <<200>>, <<170, 0>>}}
    \cup {Case("frames", << <<c, p>> >>, <<>>, 0, 0) :
            c \in SeqCmds \cup {HANDSHAKE_COMMAND}, p \in ShortPayloads \cup LongPayloads}

\* two or more frames back to back
SequenceCases ==
    {Case("frames", fs, <<>>, 0, 0) : fs \in UNION {[1..n -> SeqFrames] : n \in 2..MaxFrames}}

\* bytes other than 0xAA, then one frame
GarbageCases ==
    {Case("garbage", << <<c, p>> >>, g, 0, 0) :
        c \in {2}, p \in ShortPayloads,
        g \in UNION {[1..n -> GarbageBytes] : n \in 1..MaxGarbage}}

\* one frame with bit flipBit of its byte flipAt (counted from 1) inverted on the line
FlipCases ==
    {Case("flip", << <<c, p>> >>, <<>>, i, b) :
        c \in {2, 174}, p \in ShortPayloads \cup {<<170, 4, 2, 172>>},
        i \in 1..(MaxPayloadLen + 4), b \in 0..7}
    \cup {Case("flip", << <<2, Fill(0, MAX_BUFFER_SIZE - 4)>> >>, <<>>, i, b) :
        i \in 1..MAX_BUFFER_SIZE, b \in 0..7}

\* a start byte followed by each possible length byte and one more byte
LengthCases == {Case("length", <<>>, <<START_BYTE, L, 0>>, 0, 0) : L \in Byte}

\* payloads beyond the size bound
OversizeCases == {Case("oversize", << <<2, p>> >>, <<>>, 0, 0) : p \in OversizePayloads}

ValidCase(c) ==
    c.flipAt = 0 \/ (Len(c.frames) = 1 /\ c.flipAt <= Len(c.frames[1][2]) + 4)

TestCases ==
    {c \in RoundTripCases \cup SequenceCases \cup GarbageCases \cup FlipCases
            \cup LengthCases \cup OversizeCases : ValidCase(c)}

FlipBit(byte_val, b) ==
    IF (byte_val \div Pow2(b)) % 2 = 1 THEN byte_val - Pow2(b) ELSE byte_val + Pow2(b)

RECURSIVE Concat(_)
Concat(ss) == IF ss = <<>> THEN <<>> ELSE Head(ss) \o Concat(Tail(ss))

\* What the port delivers for a case: the prefix, then the encoded frames, with
\* the bit flip applied.
Line(c, enc) ==
    LET sent == Concat([i \in 1..Len(enc) |-> enc[i].message])
        noisy == IF c.flipAt = 0 THEN sent
                 ELSE [sent EXCEPT ![c.flipAt] = FlipBit(sent[c.flipAt], c.flipBit)]
    IN  c.prefix \o noisy

-----------------------------------------------------------------------------
(* SpecCodec: encode, then feed the decoder chunk by chunk *)

MgrIdle ==
    /\ devices = <<>>
    /\ handlers = <<>>
    /\ link = <<>>
    /\ pc = "idle"

InitCodec ==
    /\ tc \in TestCases
    /\ phase = "encode"
    /\ encoded = <<>>
    /\ wire = <<>>
    /\ dec = NewDecoder
    /\ emitted = <<>>
    /\ events = <<>>
    /\ MgrIdle

\* format_message on every frame of the case; the result goes onto the line.
Encode ==
    /\ phase = "encode"
    /\ LET enc == [i \in 1..Len(tc.frames) |-> format_message(tc.frames[i][1], tc.frames[i][2])]
       IN  /\ encoded' = enc
           /\ wire' = Line(tc, enc)
    /\ phase' = "feed"
    /\ UNCHANGED <<tc, dec, emitted, events>>
    /\ UNCHANGED mgrVars

\* read_data hands the next n bytes to process_data; call_command records each frame.
Feed(n) ==
    /\ phase = "feed"
    /\ n <= Len(wire)
    /\ LET r == process_data(dec, SubSeq(wire, 1, n))
       IN  /\ dec' = r.d
           /\ emitted' = emitted \o r.out
           /\ events' = events \o r.log
    /\ wire' = SubSeq(wire, n + 1, Len(wire))
    /\ UNCHANGED <<tc, phase, encoded>>
    /\ UNCHANGED mgrVars

NextCodec ==
    \/ Encode
    \/ \E n \in 1..MaxChunk : Feed(n)

SpecCodec == InitCodec /\ [][NextCodec]_vars

-----------------------------------------------------------------------------
(* Properties of the codec, checked under SpecCodec *)

SingleFrame == Len(tc.frames) = 1 /\ tc.prefix = <<>> /\ tc.flipAt = 0

WithinSize(f) == Len(f[2]) <= MAX_BUFFER_SIZE - 4

Fed == phase = "feed" /\ wire = <<>>

\* format_message has run and no byte has been read yet
JustEncoded == phase = "feed" /\ dec = NewDecoder /\ Len(wire) = Len(Line(tc, encoded))

IsPrefix(s, t) == Len(s) <= Len(t) /\ SubSeq(t, 1, Len(s)) = s

Bit(x, k) == (x \div Pow2(k)) % 2

\* c is the XOR of the bytes of s: bit by bit, the parity of the bytes having the bit set
IsXorOf(c, s) ==
    /\ c \in Byte
    /\ \A k \in 0..7 : Bit(c, k) = Cardinality({j \in 1..Len(s) : Bit(s[j], k) = 1}) % 2

\* C1. Codec round-trip: one frame (cmd, p) with |p| <= MAX_BUFFER_SIZE - 4, encoded by
\* format_message and fed to a fresh decoder, is handed to call_command exactly once,
\* as (cmd, p), when its last byte has been processed, and the decoder is then in
\* WAITING_FOR_START; nothing is dispatched before.
C1_RoundTrip ==
    (phase = "feed" /\ SingleFrame /\ WithinSize(tc.frames[1])) =>
        /\ wire # <<>> => emitted = <<>>
        /\ wire = <<>> => emitted = tc.frames /\ dec.message_state = "WAITING_FOR_START"

C1_Witness ==
    /\ Fed /\ SingleFrame
    /\ Len(tc.frames[1][2]) = MAX_BUFFER_SIZE - 4
    /\ emitted = tc.frames
    /\ dec.message_state = "WAITING_FOR_START"

\* C2. Encoder wire format: for a payload within the size bound format_message returns
\* 4+|p| bytes: 0xAA, the length 4+|p|, cmd, the payload, and the XOR of all the
\* preceding bytes (start byte included); (0x02, []) gives AA 04 02 AC and
\* (0x02, [0xC8]) gives AA 05 02 C8 65.
C2_WireFormat ==
    JustEncoded =>
        \A i \in 1..Len(tc.frames) :
            LET cmd == tc.frames[i][1]
                p == tc.frames[i][2]
                m == encoded[i].message
            IN  WithinSize(tc.frames[i]) =>
                    /\ encoded[i].ok
                    /\ Len(m) = 4 + Len(p)
                    /\ m[1] = 170
                    /\ m[2] = 4 + Len(p)
                    /\ m[3] = cmd
                    /\ \A j \in 1..Len(p) : m[3 + j] = p[j]
                    /\ IsXorOf(m[Len(m)], SubSeq(m, 1, Len(m) - 1))
                    /\ (cmd = 2 /\ p = <<>>) => m = <<170, 4, 2, 172>>
                    /\ (cmd = 2 /\ p = <<200>>) => m = <<170, 5, 2, 200, 101>>

C2_Witness ==
    /\ JustEncoded
    /\ tc.frames = << <<2, <<200>>>> >>
    /\ encoded[1].message = <<170, 5, 2, 200, 101>>

\* C3 as stated. Checksum law: a frame with any single bit flipped, in any of its
\* bytes, is never dispatched by a fresh decoder.
C3_AnyBitFlip ==
    tc.kind = "flip" => emitted = <<>>

\* C3 as amended. A frame with a single bit flipped in its command, payload or
\* checksum byte is never dispatched by a fresh decoder; when all its bytes have been
\* processed the decoder has logged a checksum mismatch and is in WAITING_FOR_START.
C3_BitFlipAfterLength ==
    (tc.kind = "flip" /\ tc.flipAt >= 3) =>
        /\ emitted = <<>>
        /\ Fed => /\ events # <<>>
                  /\ events[1] = "ChecksumMismatch"
                  /\ dec.message_state = "WAITING_FOR_START"

C3_Witness ==
    /\ Fed
    /\ tc.kind = "flip" /\ tc.flipAt = Len(tc.frames[1][2]) + 3
    /\ Len(tc.frames[1][2]) > 0
    /\ events = <<"ChecksumMismatch">>
    /\ emitted = <<>>

\* C4. Framing robustness (prefix): bytes other than 0xAA followed by one frame make
\* the decoder dispatch that frame, once, and nothing else; 00 01 AA 05 02 C8 65
\* yields (0x02, [0xC8]).
C4_GarbagePrefix ==
    (tc.kind = "garbage" /\ phase = "feed") =>
        /\ IsPrefix(emitted, tc.frames)
        /\ wire = <<>> => emitted = tc.frames

C4_Witness ==
    /\ Fed
    /\ tc.prefix = <<0, 1>>
    /\ encoded[1].message = <<170, 5, 2, 200, 101>>
    /\ emitted = << <<2, <<200>>>> >>

\* C5. Framing robustness (sequence): frames fed back to back, in chunks cut at any
\* byte, are dispatched in arrival order: at every moment the dispatched frames are
\* the first ones sent, and all of them once the last byte is processed.
C5_FrameSequence ==
    (tc.kind = "frames" /\ phase = "feed") =>
        /\ IsPrefix(emitted, tc.frames)
        /\ wire = <<>> => emitted = tc.frames

C5_Witness ==
    /\ Fed
    /\ tc.kind = "frames" /\ Len(tc.frames) >= 2
    /\ Len(tc.frames[1][2]) = MAX_BUFFER_SIZE - 4
    /\ tc.frames[1][2][1] = START_BYTE
    /\ tc.frames[2] # tc.frames[1]
    /\ emitted = tc.frames

\* C6. Length boundaries: a byte L read in WAITING_FOR_LENGTH with L <= 3 or
\* L > MAX_BUFFER_SIZE puts the decoder in WAITING_FOR_START and dispatches nothing;
\* with 4 <= L <= MAX_BUFFER_SIZE it puts the decoder in COLLECTING_DATA with
\* expected_length = L. (Steps that process exactly one byte.)
C6_LengthByte ==
    [][(phase = "feed" /\ dec.message_state = "WAITING_FOR_LENGTH"
            /\ Len(wire') = Len(wire) - 1) =>
        LET L == Head(wire)
        IN  IF 4 <= L /\ L <= MAX_BUFFER_SIZE
            THEN /\ dec'.message_state = "COLLECTING_DATA"
                 /\ dec'.expected_length = L
                 /\ emitted' = emitted
            ELSE /\ dec'.message_state = "WAITING_FOR_START"
                 /\ emitted' = emitted]_vars

C6_Witness ==
    /\ tc.kind = "length" /\ tc.prefix[2] = MAX_BUFFER_SIZE
    /\ Len(wire) = 1
    /\ dec.message_state = "COLLECTING_DATA"
    /\ dec.expected_length = MAX_BUFFER_SIZE

\* the overflow branch of process_data has been taken
Overflowed == \E i \in 1..Len(events) : events[i] = "Overflow"

\* the case sends only valid frames, sent as encoded
OnlyValidFrames ==
    tc.kind = "frames" /\ \A i \in 1..Len(tc.frames) : WithinSize(tc.frames[i])

\* C31 as stated. The overflow rule is unreachable under correct framing: for every
\* input made of valid frames only, of any length from 4 up to and including
\* MAX_BUFFER_SIZE, the overflow branch of the decoder is never taken.
C31_OverflowUnreachable ==
    OnlyValidFrames => ~Overflowed

\* C32. Receive buffer bounds: for every byte sequence fed to the decoder, valid or
\* not, in any chunking, every write of add_to_buffer is at an index in
\* 0..MAX_BUFFER_SIZE-1 and inside the buffer: at every byte boundary (chunks of one
\* byte make each a state) the start byte would be written at 0, and in the two
\* other decoder states the next byte at bufferIndex.
C32_BufferBounds ==
    /\ 0 \in DOMAIN dec.buffer
    /\ dec.message_state # "WAITING_FOR_START" =>
        /\ dec.bufferIndex \in 0..(MAX_BUFFER_SIZE - 1)
        /\ dec.bufferIndex \in DOMAIN dec.buffer

\* The decoder is about to write the last cell of the buffer, in a frame whose
\* bytes on the line are not those that were encoded.
C32_Witness ==
    /\ phase = "feed" /\ tc.kind = "flip"
    /\ dec.message_state = "COLLECTING_DATA"
    /\ dec.bufferIndex = MAX_BUFFER_SIZE - 1
    /\ wire # <<>>

\* C7 as stated. Encoder size bound: format_message fails for every payload longer
\* than MAX_BUFFER_SIZE - 4, so no frame whose length byte exceeds MAX_BUFFER_SIZE
\* reaches the port.
C7_PayloadTooLarge ==
    phase = "feed" =>
        \A i \in 1..Len(tc.frames) :
            ~WithinSize(tc.frames[i]) =>
                /\ ~encoded[i].ok
                /\ ~(Len(wire) >= 2 /\ wire[1] = START_BYTE /\ wire[2] > MAX_BUFFER_SIZE)

-----------------------------------------------------------------------------
(* DeviceManager and its links *)

\* register_device calls: led with 0x03 as in default_devices; gpio with 0xAA, a
\* byte the handshake also uses as its success reply, or with led's id
RegisterCalls == {<<"led", 3>>, <<"gpio", 170>>, <<"gpio", 3>>}

Ports == {"COM1", "COM2"}

\* what serial.tools.list_ports.comports() may return
PortLists == {<<>>, <<"COM1">>, <<"COM1", "COM2">>}

\* first payload bytes the devices send in handshake frames: an id, 0xAA, 0xFF
HandshakeValues == {3, 170, 255}

HandshakePayloads == {<<>>} \cup {<<v>> : v \in HandshakeValues}

\* frames the devices send: handshake frames and one other command
RxFrames == {<<HANDSHAKE_COMMAND, p>> : p \in HandshakePayloads} \cup {<<2, <<200>>>>}

NoLink == 0

max_reconnect_attempts == 5

\* outcomes of serial.Serial(...) when the worker reopens a port it had lost
ReopenOutcomes == {TRUE}

\* The manager's objects at the start of a step: registry, handler list, links;
\* tx collects the frames the step writes to the ports, as <<link id, bytes>>. The
\* devices are free to send anything at any time, so what was written to them is
\* not kept from one step to the next.
World == [devices |-> devices, handlers |-> handlers, link |-> link, tx |-> <<>>]

LinkIds(w) == DOMAIN w.link

\* the links of the manager's handler list
Listed(w) == {w.handlers[k] : k \in DOMAIN w.handlers}

DeviceNames(w) == {w.devices[i].name : i \in DOMAIN w.devices}

\* position of the entry called name in the registry (insertion order)
DevIndex(w, name) == CHOOSE i \in DOMAIN w.devices : w.devices[i].name = name

\* where the worker thread of a link is: line 0 stands for run() between two
\* iterations of its loop, another number for the line of the source the thread
\* executes next, dev being the registry entry it is working on
AtLoop == [line |-> 0, dev |-> 0]

\* SerialMessageHandler.__init__, with the 0xFF handler registered
NewLink(port) ==
    [port |-> port,
     at |-> AtLoop,
     running |-> FALSE,
     is_open |-> FALSE,
     started |-> FALSE,
     command_map |-> {HANDSHAKE_COMMAND},
     device_name |-> "NULL",
     reconnect_attempts |-> 0,
     thread_exit |-> FALSE,
     exited |-> FALSE]

handle_connection_error(w, l) ==
    [w EXCEPT !.link[l].is_open = FALSE, !.link[l].running = FALSE]

close_connection(w, l) ==
    [w EXCEPT !.link[l].running = FALSE, !.link[l].is_open = FALSE]

\* send_data without the test of the port.
send_data_noguard(w, l, command_id, payload, io_ok) ==
    LET m == format_message(command_id, payload)
    IN  IF m.ok /\ io_ok
        THEN [w EXCEPT !.tx = Append(w.tx, <<l, m.message>>)]
        ELSE handle_connection_error(w, l)

\* send_data that only reports a failed write.
send_data_noerror(w, l, command_id, payload, io_ok) ==
    IF ~w.link[l].is_open
    THEN w
    ELSE LET m == format_message(command_id, payload)
         IN  IF m.ok /\ io_ok
             THEN [w EXCEPT !.tx = Append(w.tx, <<l, m.message>>)]
             ELSE w

\* the value send_data returns
send_data_ret(w, l, command_id, payload, io_ok) ==
    w.link[l].is_open /\ format_message(command_id, payload).ok /\ io_ok

\* send_data: False when the port is not open; otherwise the frame is written, or
\* the write (or format_message) raises and handle_connection_error runs.
send_data(w, l, command_id, payload, io_ok) ==
    IF ~w.link[l].is_open
    THEN w
    ELSE LET m == format_message(command_id, payload)
         IN  IF m.ok /\ io_ok
             THEN [w EXCEPT !.tx = Append(w.tx, <<l, m.message>>)]
             ELSE handle_connection_error(w, l)

\* Command.send_handshake
send_handshake(w, l, payload, io_ok) == send_data(w, l, HANDSHAKE_COMMAND, payload, io_ok)

set_device(w, l, device_name) == [w EXCEPT !.link[l].device_name = device_name]

\* Phase 2 leaving port_number as it was.
Phase2_noport(w, l, received_value, io_ok) ==
    LET i == CHOOSE k \in DOMAIN w.devices :
                /\ w.devices[k].id = received_value
                /\ \A j \in 1..(k - 1) : w.devices[j].id # received_value
        w1 == [w EXCEPT !.devices[i].connection_status = "IN_PROGRESS",
                        !.devices[i].thread = l,
                        !.devices[i].handler = l]
    IN  send_handshake(set_device(w1, l, w.devices[i].name), l, <<received_value>>, io_ok)

\* Phase 2 without the call of set_device.
Phase2_noname(w, l, received_value, io_ok) ==
    LET i == CHOOSE k \in DOMAIN w.devices :
                /\ w.devices[k].id = received_value
                /\ \A j \in 1..(k - 1) : w.devices[j].id # received_value
        w1 == [w EXCEPT !.devices[i].connection_status = "IN_PROGRESS",
                        !.devices[i].port_number = w.link[l].port,
                        !.devices[i].thread = l,
                        !.devices[i].handler = l]
    IN  send_handshake(w1, l, <<received_value>>, io_ok)

\* Phase 2: the first registry entry whose id is the received value is stamped with
\* this link, whatever its status, and the id is echoed.
Phase2(w, l, received_value, io_ok) ==
    LET i == CHOOSE k \in DOMAIN w.devices :
                /\ w.devices[k].id = received_value
                /\ \A j \in 1..(k - 1) : w.devices[j].id # received_value
        w1 == [w EXCEPT !.devices[i].connection_status = "IN_PROGRESS",
                        !.devices[i].port_number = w.link[l].port,
                        !.devices[i].thread = l,
                        !.devices[i].handler = l]
    IN  send_handshake(set_device(w1, l, w.devices[i].name), l, <<received_value>>, io_ok)

\* Phase 4 without the test of the device's status.
Phase4_anystatus(w, l, status) ==
    IF w.link[l].device_name # "NULL"
    THEN LET i == DevIndex(w, w.link[l].device_name)
         IN  [w EXCEPT !.devices[i].connection_status = status]
    ELSE w

\* Phase 4: the device this link is named after changes status if it is IN_PROGRESS.
Phase4(w, l, status) ==
    IF w.link[l].device_name # "NULL"
    THEN LET i == DevIndex(w, w.link[l].device_name)
         IN  IF w.devices[i].connection_status = "IN_PROGRESS"
             THEN [w EXCEPT !.devices[i].connection_status = status]
             ELSE w
    ELSE w

\* DeviceManager.send_handshake_response(handler, payload)
send_handshake_response(w, l, payload, io_ok) ==
    IF Len(payload) < 1 THEN w
    ELSE LET received_value == payload[1]
             device_ids == {w.devices[i].id : i \in DOMAIN w.devices}
         IN  IF received_value \in device_ids THEN Phase2(w, l, received_value, io_ok)
             ELSE IF received_value = 170 THEN Phase4(w, l, "CONNECTED")
             ELSE IF received_value = 255 THEN Phase4(w, l, "NOT_CONNECTED")
             ELSE w

\* call_command: the handler registered for the command, if any
call_command(w, l, command_id, payload, io_ok) ==
    IF command_id \in w.link[l].command_map /\ command_id = HANDSHAKE_COMMAND
    THEN send_handshake_response(w, l, payload, io_ok)
    ELSE w

\* _cleanup_handlers / _cleanup_unused_handlers: close and drop the handlers in drop
RECURSIVE close_all(_, _)
close_all(w, ls) ==
    IF ls = <<>> THEN w ELSE close_all(close_connection(w, Head(ls)), Tail(ls))

cleanup(w, drop) ==
    LET closed == close_all(w, SelectSeq(w.handlers, LAMBDA l : l \in drop))
    IN  [closed EXCEPT !.handlers = SelectSeq(w.handlers, LAMBDA l : l \notin drop)]

_cleanup_handlers(w) == cleanup(w, LinkIds(w))

Unused(w, l) ==
    \/ w.link[l].device_name = "NULL"
    \/ w.link[l].device_name \notin DeviceNames(w)
    \/ w.devices[DevIndex(w, w.link[l].device_name)].connection_status # "CONNECTED"

_cleanup_unused_handlers(w) == cleanup(w, {l \in LinkIds(w) : Unused(w, l)})

reset_devices(w) ==
    [w EXCEPT !.devices = [i \in DOMAIN w.devices |->
        [w.devices[i] EXCEPT !.connection_status = "NOT_CONNECTED",
                             !.port_number = "NULL",
                             !.handler = NoLink,
                             !.thread = NoLink]]]

RECURSIVE create_handlers(_, _)
create_handlers(w, ports) ==
    IF ports = <<>> THEN w
    ELSE LET l == Cardinality(LinkIds(w)) + 1
         IN  create_handlers(
                [w EXCEPT !.link = [k \in LinkIds(w) \cup {l} |->
                                        IF k = l THEN NewLink(Head(ports)) ELSE w.link[k]],
                          !.handlers = Append(w.handlers, l)],
                Tail(ports))

Install(w) ==
    /\ devices' = w.devices
    /\ handlers' = w.handlers
    /\ link' = w.link

-----------------------------------------------------------------------------
(* Spec: the operations of the manager, the link workers and the devices *)

Init ==
    /\ tc = Case("none", <<>>, <<>>, 0, 0)
    /\ phase = "none"
    /\ encoded = <<>>
    /\ wire = <<>>
    /\ dec = NewDecoder
    /\ emitted = <<>>
    /\ events = <<>>
    /\ MgrIdle

NewDevice(name, device_id) ==
    [name |-> name, id |-> device_id, connection_status |-> "NOT_CONNECTED",
     port_number |-> "NULL", thread |-> NoLink, handler |-> NoLink]

\* register_device storing the entry whether or not the name is known.
register_device_call_overwrite(w, name, device_id) ==
    IF name \in DeviceNames(w)
    THEN [w |-> [w EXCEPT !.devices[DevIndex(w, name)] = NewDevice(name, device_id)],
          ret |-> TRUE]
    ELSE [w |-> [w EXCEPT !.devices = Append(@, NewDevice(name, device_id))],
          ret |-> TRUE]

\* register_device(name, device_id): the registry afterwards and the value returned
register_device_call(w, name, device_id) ==
    IF name \in DeviceNames(w)
    THEN [w |-> w, ret |-> FALSE]
    ELSE [w |-> [w EXCEPT !.devices = Append(@, NewDevice(name, device_id))],
          ret |-> TRUE]

\* register_device(name, device_id)
register_device(name, device_id) ==
    /\ pc = "idle"
    /\ devices' = register_device_call(World, name, device_id).w.devices
    /\ UNCHANGED <<handlers, link, pc>>
    /\ UNCHANGED codecVars

\* discover_devices up to the start of its loop: reset, _cleanup_handlers, one
\* handler per port; with no port it returns at once.
DiscoverStart(ports) ==
    /\ pc = "idle"
    /\ Cardinality(LinkIds(World)) + Len(ports) <= MaxLinks
    /\ Install(create_handlers(_cleanup_handlers(reset_devices(World)), ports))
    /\ pc' = IF ports = <<>> THEN "idle" ELSE "discover"
    /\ UNCHANGED codecVars

\* one pass of the loop body's probe, for one handler of the list
Probe(l, io_ok) ==
    /\ pc = "discover"
    /\ \E i \in DOMAIN handlers : handlers[i] = l
    /\ \E i \in DOMAIN devices : devices[i].connection_status # "CONNECTED"
    /\ ~(/\ link[l].device_name # "NULL"
         /\ link[l].device_name \in DeviceNames(World)
         /\ devices[DevIndex(World, link[l].device_name)].connection_status = "CONNECTED")
    /\ Install(send_handshake(World, l, <<0>>, io_ok))
    /\ UNCHANGED pc
    /\ UNCHANGED codecVars

\* the loop ends (every device CONNECTED, or the timeout): _cleanup_unused_handlers
DiscoverEnd ==
    /\ pc = "discover"
    /\ Install(_cleanup_unused_handlers(World))
    /\ pc' = "idle"
    /\ UNCHANGED codecVars

\* run(): open_connection at the start of the worker thread
open_connection(l, ok) ==
    /\ l \in LinkIds(World)
    /\ ~link[l].started /\ ~link[l].exited
    /\ link' = [link EXCEPT ![l].started = TRUE, ![l].is_open = ok, ![l].running = ok,
                            ![l].reconnect_attempts = IF ok THEN 0 ELSE @]
    /\ UNCHANGED <<devices, handlers, pc>>
    /\ UNCHANGED codecVars

\* run(): the loop goes on, the link is not running and the cap is not reached
ReconnectEligible(w, l) ==
    /\ w.link[l].at = AtLoop
    /\ w.link[l].started /\ ~w.link[l].running
    /\ ~w.link[l].thread_exit /\ ~w.link[l].exited
    /\ w.link[l].reconnect_attempts < max_reconnect_attempts

\* the reconnect branch without the test of the cap.
reconnect_nocap(l, ok) ==
    /\ l \in LinkIds(World)
    /\ link[l].at = AtLoop
    /\ link[l].started /\ ~link[l].running
    /\ ~link[l].thread_exit /\ ~link[l].exited
    /\ link' = [link EXCEPT ![l].is_open = ok, ![l].running = ok,
                            ![l].reconnect_attempts = IF ok THEN 0 ELSE @ + 1]
    /\ UNCHANGED <<devices, handlers, pc>>
    /\ UNCHANGED codecVars

\* run(): not running and below the cap, the worker sleeps, counts the attempt and
\* calls open_connection, which resets the counter when the port opens
reconnect(l, ok) ==
    /\ l \in LinkIds(World)
    /\ ReconnectEligible(World, l)
    /\ link' = [link EXCEPT ![l].is_open = ok, ![l].running = ok,
                            ![l].reconnect_attempts = IF ok THEN 0 ELSE @ + 1]
    /\ UNCHANGED <<devices, handlers, pc>>
    /\ UNCHANGED codecVars

\* the worker of link l is in its read loop with the port open
Reading(l) ==
    /\ link[l].at = AtLoop
    /\ link[l].started /\ link[l].running /\ link[l].is_open
    /\ ~link[l].thread_exit /\ ~link[l].exited

\* read_data: the worker reads the bytes of one frame sent by the device, with the
\* decoder in WAITING_FOR_START; process_data hands the frame to call_command
\* (SpecCodec is where the decoding itself is modelled).
read_data(l, frame, io_ok) ==
    /\ l \in LinkIds(World)
    /\ Reading(l)
    /\ io_ok \/ call_command(World, l, frame[1], frame[2], TRUE).tx # <<>>
    /\ Install(call_command(World, l, frame[1], frame[2], io_ok))
    /\ UNCHANGED pc
    /\ UNCHANGED codecVars

\* read_data raises (the port is gone): run() calls handle_connection_error
read_error(l) ==
    /\ l \in LinkIds(World)
    /\ Reading(l)
    /\ Install(handle_connection_error(World, l))
    /\ UNCHANGED pc
    /\ UNCHANGED codecVars

Next ==
    \/ \E call \in RegisterCalls : register_device(call[1], call[2])
    \/ \E ports \in PortLists : DiscoverStart(ports)
    \/ \E l \in LinkIds(World), io_ok \in BOOLEAN : Probe(l, io_ok)
    \/ DiscoverEnd
    \/ \E l \in LinkIds(World), ok \in BOOLEAN : open_connection(l, ok)
    \/ \E l \in LinkIds(World), ok \in ReopenOutcomes : reconnect(l, ok)
    \/ \E l \in LinkIds(World) : read_error(l)
    \/ \E l \in LinkIds(World), frame \in RxFrames, io_ok \in BOOLEAN :
            read_data(l, frame, io_ok)

Spec == Init /\ [][Next]_vars

-----------------------------------------------------------------------------
(* Properties of the handshake, checked under Spec *)

\* the registry and the links after the worker of link l has read the handshake
\* frame (0xFF, [v]) and dispatched it; tx holds what the dispatch wrote
Delivered(l, v, io_ok) == call_command(World, l, HANDSHAKE_COMMAND, <<v>>, io_ok)

RegisteredIds == {devices[i].id : i \in DOMAIN devices}

\* entry i is the first one of the registry with id v
FirstWithId(i, v) == devices[i].id = v /\ \A j \in 1..(i - 1) : devices[j].id # v

\* in w, entry i is bound to link l: bound link, bound port, and the link's device
BoundTo(w, i, l) ==
    /\ w.devices[i].handler = l
    /\ w.devices[i].port_number = w.link[l].port
    /\ w.link[l].device_name = w.devices[i].name

\* C8 as stated. Handshake progression: a NOT_CONNECTED device d becomes IN_PROGRESS,
\* bound to link L, when L delivers (0xFF, [id of d]); and d, IN_PROGRESS and bound
\* to L, becomes CONNECTED, with bound port L's port and bound link L, when L then
\* delivers (0xFF, [0xAA]).
C8_Progression ==
    \A l \in LinkIds(World), i \in DOMAIN devices, io_ok \in BOOLEAN :
        Reading(l) =>
            /\ devices[i].connection_status = "NOT_CONNECTED"
                => LET w == Delivered(l, devices[i].id, io_ok)
                   IN  w.devices[i].connection_status = "IN_PROGRESS" /\ BoundTo(w, i, l)
            /\ (devices[i].connection_status = "IN_PROGRESS" /\ BoundTo(World, i, l))
                => LET w == Delivered(l, 170, io_ok)
                   IN  w.devices[i].connection_status = "CONNECTED" /\ BoundTo(w, i, l)

\* C8 as amended. The same two steps, where d is the first registry entry whose id
\* is the delivered byte, and 0xAA is not the id of a registered device.
C8_ProgressionFirstMatch ==
    \A l \in LinkIds(World), i \in DOMAIN devices, io_ok \in BOOLEAN :
        Reading(l) =>
            /\ (devices[i].connection_status = "NOT_CONNECTED"
                    /\ FirstWithId(i, devices[i].id))
                => LET w == Delivered(l, devices[i].id, io_ok)
                   IN  w.devices[i].connection_status = "IN_PROGRESS" /\ BoundTo(w, i, l)
            /\ (devices[i].connection_status = "IN_PROGRESS" /\ BoundTo(World, i, l)
                    /\ 170 \notin RegisteredIds)
                => LET w == Delivered(l, 170, io_ok)
                   IN  w.devices[i].connection_status = "CONNECTED" /\ BoundTo(w, i, l)

\* A device has gone through both steps: it is CONNECTED and bound to a link.
C8_Witness ==
    \E l \in LinkIds(World), i \in DOMAIN devices :
        /\ devices[i].connection_status = "CONNECTED"
        /\ BoundTo(World, i, l)
        /\ 170 \notin RegisteredIds

\* C9 as stated. Handshake failure clears the binding, so a NOT_CONNECTED device has
\* no bound port and no bound link.
C9_NotConnectedUnbound ==
    \A i \in DOMAIN devices :
        devices[i].connection_status = "NOT_CONNECTED" =>
            devices[i].port_number = "NULL" /\ devices[i].handler = NoLink

\* C10 as stated. First link wins: a handshake frame carrying the id of a device that
\* is IN_PROGRESS or CONNECTED, read on any link, leaves the registry and the links
\* as they are and writes no echo.
C10_FirstLinkWins ==
    \A l \in LinkIds(World), i \in DOMAIN devices :
        (Reading(l) /\ devices[i].connection_status \in {"IN_PROGRESS", "CONNECTED"})
            => LET w == Delivered(l, devices[i].id, TRUE)
               IN  w.devices = devices /\ w.link = link /\ w.tx = <<>>

\* C33 as stated. Phase-4 success counts only on the device's own bound link: when
\* (0xFF, [0xAA]) read on link L makes a device CONNECTED, L is the link recorded as
\* that device's bound link; a success frame on another link that still carries the
\* device's name leaves the device as it is.
C33_SuccessOnBoundLink ==
    \A l \in LinkIds(World), i \in DOMAIN devices :
        (Reading(l) /\ devices[i].connection_status # "CONNECTED")
            => LET w == Delivered(l, 170, TRUE)
               IN  w.devices[i].connection_status = "CONNECTED" => devices[i].handler = l

\* C34 as stated. Binding is one-to-one: in every reachable state a link is the
\* bound link of at most one device, and the device name of the bound link of a
\* device is that device's name.
C34_BindingOneToOne ==
    \A i \in DOMAIN devices :
        devices[i].handler \in LinkIds(World) =>
            /\ \A j \in DOMAIN devices : devices[j].handler = devices[i].handler => j = i
            /\ link[devices[i].handler].device_name = devices[i].name

\* the echo of Phase 3 on link l: one frame (0xFF, [v])
Echo(l, v) == << <<l, format_message(HANDSHAKE_COMMAND, <<v>>).message>> >>

\* C29 as stated. Phase-2 bind and echo: when link L delivers (0xFF, [v]) with v the
\* id of a registered NOT_CONNECTED device d, then d is IN_PROGRESS, L's device name
\* is d, and exactly one frame (0xFF, [v]) has been written, on L.
C29_BindAndEcho ==
    \A l \in LinkIds(World), i \in DOMAIN devices, io_ok \in BOOLEAN :
        (Reading(l) /\ devices[i].connection_status = "NOT_CONNECTED")
            => LET w == Delivered(l, devices[i].id, io_ok)
               IN  /\ w.devices[i].connection_status = "IN_PROGRESS"
                   /\ w.link[l].device_name = devices[i].name
                   /\ w.tx = Echo(l, devices[i].id)

\* C29 as amended. The same, where d is the first registry entry whose id is v; the
\* echo is written when the write to the port succeeds, and when it fails nothing
\* is written and the link is closed, d being IN_PROGRESS and named on L all the same.
C29_BindAndEchoFirstMatch ==
    \A l \in LinkIds(World), i \in DOMAIN devices, io_ok \in BOOLEAN :
        (Reading(l) /\ devices[i].connection_status = "NOT_CONNECTED"
                /\ FirstWithId(i, devices[i].id))
            => LET w == Delivered(l, devices[i].id, io_ok)
               IN  /\ w.devices[i].connection_status = "IN_PROGRESS"
                   /\ w.link[l].device_name = devices[i].name
                   /\ io_ok => w.tx = Echo(l, devices[i].id) /\ w.link[l].is_open
                   /\ ~io_ok => w.tx = <<>> /\ ~w.link[l].is_open

\* Phase 2 has run with a failed echo: a device is IN_PROGRESS, bound to a link
\* that carries its name and whose port is closed.
C29_Witness ==
    \E l \in LinkIds(World), i \in DOMAIN devices :
        /\ devices[i].connection_status = "IN_PROGRESS"
        /\ BoundTo(World, i, l)
        /\ link[l].started /\ ~link[l].is_open

-----------------------------------------------------------------------------
(* Properties of registration, of send_data and of discovery *)

\* C16. Registration rejects duplicate names: register_device with a name already in
\* the registry returns False and changes nothing; with a new name it returns True
\* and adds one entry, NOT_CONNECTED with nothing bound, after the existing ones.
C16_RegisterDuplicateName ==
    pc = "idle" =>
        \A call \in RegisterCalls :
            LET r == register_device_call(World, call[1], call[2])
                n == Len(devices)
            IN  IF call[1] \in DeviceNames(World)
                THEN r.ret = FALSE /\ r.w = World
                ELSE /\ r.ret = TRUE
                     /\ Len(r.w.devices) = n + 1
                     /\ \A i \in 1..n : r.w.devices[i] = devices[i]
                     /\ r.w.devices[n + 1] =
                            [name |-> call[1], id |-> call[2],
                             connection_status |-> "NOT_CONNECTED",
                             port_number |-> "NULL", thread |-> NoLink,
                             handler |-> NoLink]
                     /\ r.w.link = link /\ r.w.handlers = handlers

\* Two names are registered, a register call with either name is a duplicate, and
\* the entry it would hit is CONNECTED with a bound port and link.
C16_Witness ==
    /\ pc = "idle"
    /\ Len(devices) = 2
    /\ \E i \in DOMAIN devices :
        /\ devices[i].connection_status = "CONNECTED"
        /\ devices[i].handler # NoLink
        /\ \E call \in RegisterCalls : call[1] = devices[i].name

\* C17 as stated. Registry id uniqueness: no two registry entries have the same id.
C17_UniqueIds ==
    \A i, j \in DOMAIN devices : devices[i].id = devices[j].id => i = j

\* commands and payloads of the send_data calls examined
SendCommands == {HANDSHAKE_COMMAND, 2}

SendPayloads == {<<>>, <<0>>, <<200, 170>>}

\* C18. send on a closed link: send_data on a link whose port is not open returns
\* False, writes nothing, and leaves the link (open flag, reconnect counter, device
\* name), the other links and the registry as they are.
C18_SendOnClosedLink ==
    \A l \in LinkIds(World), c \in SendCommands, p \in SendPayloads, io_ok \in BOOLEAN :
        ~link[l].is_open =>
            /\ send_data(World, l, c, p, io_ok) = World
            /\ ~send_data_ret(World, l, c, p, io_ok)

\* Discovery is probing a listed link whose port is not open.
C18_Witness ==
    /\ pc = "discover"
    /\ \E i \in DOMAIN devices : devices[i].connection_status # "CONNECTED"
    /\ \E l \in Listed(World) :
        link[l].started /\ ~link[l].is_open /\ link[l].device_name = "NULL"

\* C19. send write failure: send_data on an open link returns True exactly when the
\* whole frame was written; when the write fails it returns False, nothing is
\* written, the port is closed and running is False with the reconnect counter
\* below the cap, so the worker's loop, unless it was told to stop, will take its
\* reconnect branch.
C19_SendWriteFailure ==
    \A l \in LinkIds(World), c \in SendCommands, p \in SendPayloads, io_ok \in BOOLEAN :
        link[l].is_open =>
            LET w == send_data(World, l, c, p, io_ok)
                ret == send_data_ret(World, l, c, p, io_ok)
            IN  /\ ret <=> w.tx = <<<<l, format_message(c, p).message>>>>
                /\ ret <=> io_ok
                /\ ret => w.link = link /\ w.devices = devices
                /\ ~ret => /\ w.tx = <<>>
                           /\ ~w.link[l].is_open /\ ~w.link[l].running
                           /\ w.link[l].reconnect_attempts < max_reconnect_attempts
                           /\ ~link[l].thread_exit => ReconnectEligible(w, l)

\* During discovery a listed link that had been named by a handshake is closed, with
\* its worker about to reconnect.
C19_Witness ==
    /\ pc = "discover"
    /\ \E l \in Listed(World) :
        /\ link[l].device_name # "NULL"
        /\ ~link[l].is_open
        /\ ReconnectEligible(World, l)

\* C11 as stated. Link error unbinds: when a read error or a write error occurs on
\* the bound link of a device, the link is closed and the device is marked
\* NOT_CONNECTED, so a CONNECTED device does not survive an I/O error on its link.
C11_LinkErrorUnbinds ==
    \A l \in LinkIds(World), i \in DOMAIN devices :
        (Reading(l) /\ devices[i].handler = l
            /\ devices[i].connection_status = "CONNECTED")
        => LET r == handle_connection_error(World, l)
               s == send_data(World, l, HANDSHAKE_COMMAND, <<0>>, FALSE)
           IN  /\ ~r.link[l].is_open
               /\ r.devices[i].connection_status = "NOT_CONNECTED"
               /\ ~s.link[l].is_open
               /\ s.devices[i].connection_status = "NOT_CONNECTED"

\* link l is the bound link of a CONNECTED device
BoundLinkOfConnected(w, l) ==
    \E i \in DOMAIN w.devices :
        w.devices[i].connection_status = "CONNECTED" /\ w.devices[i].handler = l

\* C12 as stated. Discovery cleanup: at the end of discovery every link that is not
\* the bound link of a CONNECTED device is dropped from the list and closed, and
\* every other link is kept as it is; once discovery has returned, a link that is
\* not in the list is closed, for good.
C12_DiscoveryCleanup ==
    /\ pc = "discover" =>
        LET w == _cleanup_unused_handlers(World)
        IN  \A l \in Listed(World) :
                IF BoundLinkOfConnected(World, l)
                THEN l \in Listed(w) /\ w.link[l] = link[l]
                ELSE l \notin Listed(w) /\ ~w.link[l].is_open
    /\ pc = "idle" =>
        \A l \in LinkIds(World) \ Listed(World) : ~link[l].is_open

\* C13 as stated. Discovery timeout: when discovery has returned and no link has been
\* named by a handshake frame, every device is NOT_CONNECTED, no link is left in
\* the list, and the worker of every link that was created has left run().
C13_DiscoveryTimeout ==
    (pc = "idle" /\ \A l \in LinkIds(World) : link[l].device_name = "NULL")
    => /\ \A i \in DOMAIN devices : devices[i].connection_status = "NOT_CONNECTED"
       /\ handlers = <<>>
       /\ \A l \in LinkIds(World) : link[l].exited

-----------------------------------------------------------------------------
(* SpecOps: connect_specific_device and disconnect_device on a registry given to
   the constructor, next to discovery and the link workers *)

\* devices_dict handed to DeviceManager(...): gpio and led of default_devices
InitialDevices ==
    <<[name |-> "gpio", id |-> 1, connection_status |-> "NOT_CONNECTED",
       port_number |-> "NULL", thread |-> NoLink, handler |-> NoLink],
      [name |-> "led", id |-> 3, connection_status |-> "NOT_CONNECTED",
       port_number |-> "NULL", thread |-> NoLink, handler |-> NoLink]>>

\* names passed to connect_specific_device and disconnect_device; turret is not in
\* the registry
OpNames == {"gpio", "led", "turret"}

\* port lists of a connect_specific_device call
ConnectPortLists == {<<>>, <<"COM2">>}

\* frames the devices send while these operations run
OpsFrames == {<<HANDSHAKE_COMMAND, <<v>>>> : v \in {1, 3, 170}}

ConnectPc(name) == "connect " \o name

\* stop_thread(timeout): the cancellation signal is set and the port closed, then
\* the worker is joined; joined tells whether it ended within the timeout
stop_thread(w, l, joined) ==
    [w EXCEPT !.link[l].thread_exit = TRUE,
              !.link[l].running = FALSE,
              !.link[l].is_open = FALSE,
              !.link[l].exited = @ \/ joined]

reset_device(w, i) ==
    [w EXCEPT !.devices[i].connection_status = "NOT_CONNECTED",
              !.devices[i].port_number = "NULL",
              !.devices[i].handler = NoLink,
              !.devices[i].thread = NoLink]

\* disconnect_device leaving port_number as it was.
disconnect_device_keepport(w, device_name, joined) ==
    IF device_name \notin DeviceNames(w)
    THEN [w |-> w, ret |-> FALSE]
    ELSE LET i == DevIndex(w, device_name)
         IN  IF w.devices[i].connection_status # "CONNECTED"
             THEN [w |-> w, ret |-> FALSE]
             ELSE [w |-> [stop_thread(w, w.devices[i].handler, joined)
                            EXCEPT !.devices[i].connection_status = "NOT_CONNECTED",
                                   !.devices[i].handler = NoLink,
                                   !.devices[i].thread = NoLink],
                   ret |-> joined]

\* disconnect_device(device_name): the registry and links afterwards, and the
\* value returned
disconnect_device(w, device_name, joined) ==
    IF device_name \notin DeviceNames(w)
    THEN [w |-> w, ret |-> FALSE]
    ELSE LET i == DevIndex(w, device_name)
         IN  IF w.devices[i].connection_status # "CONNECTED"
             THEN [w |-> w, ret |-> FALSE]
             ELSE IF w.devices[i].handler # NoLink
             THEN [w |-> reset_device(stop_thread(w, w.devices[i].handler, joined), i),
                   ret |-> joined]
             ELSE [w |-> [w EXCEPT !.devices[i].connection_status = "NOT_CONNECTED",
                                   !.devices[i].port_number = "NULL",
                                   !.devices[i].thread = NoLink],
                   ret |-> TRUE]

\* connect_specific_device up to the start of its loop; looping tells whether the
\* loop is entered or the call has returned
connect_start(w, device_name, ports) ==
    IF device_name \notin DeviceNames(w)
    THEN [w |-> w, looping |-> FALSE]
    ELSE LET i == DevIndex(w, device_name)
         IN  IF w.devices[i].connection_status = "CONNECTED"
                    /\ w.devices[i].handler # NoLink
             THEN [w |-> w, looping |-> FALSE]
             ELSE IF ports = <<>>
             THEN [w |-> reset_device(w, i), looping |-> FALSE]
             ELSE [w |-> create_handlers(
                            _cleanup_unused_handlers(reset_device(w, i)), ports),
                   looping |-> TRUE]

\* the loop of disconnect_all_devices from entry i on; joined[k] is what the
\* stop_thread of entry k's handler returns
RECURSIVE disconnect_each(_, _, _, _)
disconnect_each(w, i, joined, success) ==
    IF i > Len(w.devices) THEN [w |-> w, ret |-> success]
    ELSE IF w.devices[i].connection_status = "CONNECTED"
    THEN LET r == disconnect_device(w, w.devices[i].name, joined[i])
         IN  disconnect_each(r.w, i + 1, joined, success /\ r.ret)
    ELSE disconnect_each(w, i + 1, joined, success)

\* disconnect_all_devices without the final _cleanup_handlers.
disconnect_all_devices_nocleanup(w, joined) ==
    disconnect_each(w, 1, joined, TRUE)

\* disconnect_all_devices(): the registry and links afterwards, and the value
\* returned
disconnect_all_devices(w, joined) ==
    LET r == disconnect_each(w, 1, joined, TRUE)
    IN  [w |-> _cleanup_handlers(r.w), ret |-> r.ret]

InitOps ==
    /\ tc = Case("none", <<>>, <<>>, 0, 0)
    /\ phase = "none"
    /\ encoded = <<>>
    /\ wire = <<>>
    /\ dec = NewDecoder
    /\ emitted = <<>>
    /\ events = <<>>
    /\ devices = InitialDevices
    /\ handlers = <<>>
    /\ link = <<>>
    /\ pc = "idle"

ConnectStart(device_name, ports) ==
    /\ pc = "idle"
    /\ Cardinality(LinkIds(World)) + Len(ports) <= MaxLinks
    /\ Install(connect_start(World, device_name, ports).w)
    /\ pc' = IF connect_start(World, device_name, ports).looping
             THEN ConnectPc(device_name) ELSE "idle"
    /\ UNCHANGED codecVars

\* one probe of the loop body of connect_specific_device, for one handler
ConnectProbe(device_name, l, io_ok) ==
    /\ pc = ConnectPc(device_name)
    /\ l \in Listed(World)
    /\ devices[DevIndex(World, device_name)].connection_status # "CONNECTED"
    /\ ~(link[l].device_name # "NULL" /\ link[l].device_name # device_name)
    /\ Install(send_handshake(World, l, <<0>>, io_ok))
    /\ UNCHANGED pc
    /\ UNCHANGED codecVars

\* the loop ends (the device is CONNECTED, or the timeout)
ConnectEnd(device_name) ==
    /\ pc = ConnectPc(device_name)
    /\ Install(_cleanup_unused_handlers(World))
    /\ pc' = "idle"
    /\ UNCHANGED codecVars

Disconnect(device_name, joined) ==
    /\ pc = "idle"
    /\ Install(disconnect_device(World, device_name, joined).w)
    /\ UNCHANGED pc
    /\ UNCHANGED codecVars

\* the loop of run() that ends only while the counter is below the cap.
worker_exit_belowcap(l) ==
    /\ l \in LinkIds(World)
    /\ link[l].at = AtLoop
    /\ link[l].thread_exit /\ ~link[l].exited
    /\ link[l].reconnect_attempts < max_reconnect_attempts
    /\ link' = [link EXCEPT ![l].exited = TRUE]
    /\ UNCHANGED <<devices, handlers, pc>>
    /\ UNCHANGED codecVars

\* run(): the loop condition finds thread_exit set and the worker returns
worker_exit(l) ==
    /\ l \in LinkIds(World)
    /\ link[l].at = AtLoop
    /\ link[l].thread_exit /\ ~link[l].exited
    /\ link' = [link EXCEPT ![l].exited = TRUE]
    /\ UNCHANGED <<devices, handlers, pc>>
    /\ UNCHANGED codecVars

NextOps ==
    \/ \E ports \in PortLists : DiscoverStart(ports)
    \/ \E l \in LinkIds(World), io_ok \in BOOLEAN : Probe(l, io_ok)
    \/ DiscoverEnd
    \/ \E name \in OpNames, ports \in ConnectPortLists : ConnectStart(name, ports)
    \/ \E name \in OpNames, l \in LinkIds(World), io_ok \in BOOLEAN :
            ConnectProbe(name, l, io_ok)
    \/ \E name \in OpNames : ConnectEnd(name)
    \/ \E l \in LinkIds(World), ok \in BOOLEAN : open_connection(l, ok)
    \/ \E l \in LinkIds(World), ok \in ReopenOutcomes : reconnect(l, ok)
    \/ \E l \in LinkIds(World) : read_error(l)
    \/ \E l \in LinkIds(World), frame \in OpsFrames, io_ok \in BOOLEAN :
            read_data(l, frame, io_ok)

SpecOps == InitOps /\ [][NextOps]_vars

-----------------------------------------------------------------------------
(* SpecStop: disconnect_device after discovery, and the workers it stops *)

NextStop ==
    \/ \E ports \in PortLists : DiscoverStart(ports)
    \/ \E l \in LinkIds(World), io_ok \in BOOLEAN : Probe(l, io_ok)
    \/ DiscoverEnd
    \/ \E name \in OpNames, joined \in BOOLEAN : Disconnect(name, joined)
    \/ \E l \in LinkIds(World), ok \in BOOLEAN : open_connection(l, ok)
    \/ \E l \in LinkIds(World), ok \in ReopenOutcomes : reconnect(l, ok)
    \/ \E l \in LinkIds(World) : read_error(l)
    \/ \E l \in LinkIds(World), frame \in OpsFrames, io_ok \in BOOLEAN :
            read_data(l, frame, io_ok)
    \/ \E l \in LinkIds(World) : worker_exit(l)

SpecStop == InitOps /\ [][NextStop]_vars

-----------------------------------------------------------------------------
(* Properties of connect_specific_device (SpecOps) and disconnect_device (SpecStop) *)

\* C14 as stated. connect_one cleanup: when connect_specific_device leaves its loop
\* and returns, every link of the manager's list other than the bound link of the
\* named device is removed from the list and closed.
C14_ConnectCleanup ==
    \A name \in OpNames :
        pc = ConnectPc(name) =>
            LET w == _cleanup_unused_handlers(World)
                d == devices[DevIndex(World, name)]
            IN  \A l \in Listed(World) \ {d.handler} :
                    l \notin Listed(w) /\ ~w.link[l].is_open

-----------------------------------------------------------------------------
(* SpecWorker: the workers of two links created by a discovery, with ports that
   may fail to reopen, and stop_thread called on them *)

WorkerPorts == <<"COM1", "COM2">>

\* the frames the two devices send: the ids of gpio and led, and the success reply
WorkerFrames == {<<HANDSHAKE_COMMAND, <<v>>>> : v \in {1, 3, 170}}

\* discover_devices has created one handler per port and is in its loop
InitWorker ==
    /\ tc = Case("none", <<>>, <<>>, 0, 0)
    /\ phase = "none"
    /\ encoded = <<>>
    /\ wire = <<>>
    /\ dec = NewDecoder
    /\ emitted = <<>>
    /\ events = <<>>
    /\ LET w == create_handlers(
                    [devices |-> InitialDevices, handlers |-> <<>>,
                     link |-> <<>>, tx |-> <<>>], WorkerPorts)
       IN  devices = w.devices /\ handlers = w.handlers /\ link = w.link
    /\ pc = "discover"

\* handler.stop_thread(timeout) called by the application on a handler it holds
Stop(l, joined) ==
    /\ pc = "idle"
    /\ l \in LinkIds(World)
    /\ ~link[l].thread_exit
    /\ Install(stop_thread(World, l, joined))
    /\ UNCHANGED pc
    /\ UNCHANGED codecVars

\* disconnect_all_devices() called by the application
DisconnectAll(joined) ==
    /\ pc = "idle"
    /\ \E i \in DOMAIN devices : devices[i].connection_status = "CONNECTED"
    /\ Install(disconnect_all_devices(World, joined).w)
    /\ UNCHANGED pc
    /\ UNCHANGED codecVars

NextWorker ==
    \/ \E l \in LinkIds(World), io_ok \in BOOLEAN : Probe(l, io_ok)
    \/ DiscoverEnd
    \/ \E l \in LinkIds(World), ok \in BOOLEAN : open_connection(l, ok)
    \/ \E l \in LinkIds(World), ok \in BOOLEAN : reconnect(l, ok)
    \/ \E l \in LinkIds(World) : read_error(l)
    \/ \E l \in LinkIds(World), frame \in WorkerFrames, io_ok \in BOOLEAN :
            read_data(l, frame, io_ok)
    \/ \E l \in LinkIds(World), joined \in BOOLEAN : Stop(l, joined)
    \/ \E joined \in [DOMAIN devices -> BOOLEAN] : DisconnectAll(joined)
    \/ \E l \in LinkIds(World) : worker_exit(l)

SpecWorker == InitWorker /\ [][NextWorker]_vars

-----------------------------------------------------------------------------
(* Properties of the reconnect loop, checked under SpecWorker *)

ReconnectRange ==
    \A l \in LinkIds(World) :
        /\ link[l].reconnect_attempts \in 0..max_reconnect_attempts
        /\ (link[l].thread_exit /\ ~link[l].exited) => ENABLED worker_exit(l)

\* what one step may do to the counter and to the port of link l
ReconnectStep(l) ==
    LET before == link[l]
        after == link'[l]
    IN  /\ after.reconnect_attempts # before.reconnect_attempts =>
            /\ before.started /\ ~before.running /\ ~before.is_open
            /\ before.reconnect_attempts < max_reconnect_attempts
            /\ IF after.is_open
               THEN after.reconnect_attempts = 0
               ELSE after.reconnect_attempts = before.reconnect_attempts + 1
        /\ (~before.is_open /\ after.is_open) =>
            /\ ~before.running
            /\ before.reconnect_attempts < max_reconnect_attempts
            /\ after.reconnect_attempts = 0
        /\ (before.started /\ before.reconnect_attempts = max_reconnect_attempts) =>
            /\ ~after.is_open /\ ~after.running
            /\ after.reconnect_attempts = max_reconnect_attempts

\* C20. Reconnect cap: reconnect_attempts stays within 0..max_reconnect_attempts; it
\* changes only by a reopen attempt made while the link is closed and the counter is
\* below the cap, which adds one when the open fails and resets it to 0 when the
\* open succeeds; a port is opened only that way or by the worker's first open; at
\* the cap the link stays closed with the counter unchanged, and a worker whose
\* cancellation is set can still leave its loop.
C20_ReconnectCap ==
    /\ []ReconnectRange
    /\ [][\A l \in LinkIds(World) : ReconnectStep(l)]_vars

\* A worker has used up its attempts: the link is closed with the counter at the cap.
C20_Witness ==
    \E l \in LinkIds(World) :
        /\ link[l].started /\ ~link[l].running /\ ~link[l].is_open
        /\ link[l].reconnect_attempts = max_reconnect_attempts

-----------------------------------------------------------------------------
(* Properties of disconnect_all_devices, checked under SpecWorker *)

\* C22. disconnect_all: disconnect_all_devices returns True exactly when the
\* disconnect_device of every CONNECTED device returned True, whatever the outcome
\* of each stop_thread, and afterwards the manager's handler list is empty (and
\* every link it held is closed).
C22_DisconnectAll ==
    pc = "idle" =>
        \A joined \in [DOMAIN devices -> BOOLEAN] :
            LET r == disconnect_all_devices(World, joined)
            IN  /\ r.ret <=>
                    \A i \in DOMAIN devices :
                        devices[i].connection_status = "CONNECTED" =>
                            disconnect_device(World, devices[i].name, joined[i]).ret
                /\ r.w.handlers = <<>>
                /\ \A l \in Listed(World) : ~r.w.link[l].is_open

\* disconnect_all_devices has run on two CONNECTED devices: both are NOT_CONNECTED,
\* the list is empty, and of the two stopped workers one was joined in time and
\* the other was not.
C22_Witness ==
    /\ pc = "idle" /\ handlers = <<>>
    /\ \A i \in DOMAIN devices :
        devices[i].connection_status = "NOT_CONNECTED" /\ devices[i].handler = NoLink
    /\ \E l, k \in LinkIds(World) :
        /\ link[l].device_name = "gpio" /\ link[k].device_name = "led"
        /\ link[l].thread_exit /\ link[k].thread_exit
        /\ link[l].exited /\ ~link[k].exited

-----------------------------------------------------------------------------
(* Properties of the handshake handler, checked under SpecWorker *)

\* first payload bytes that are no device's id here: the probe value 0x00, an
\* unregistered id, the success reply and the failure reply
IgnoredValues == {0, 2, 170, 255}

\* the device link l is named after is IN_PROGRESS
NamedInProgress(w, l) ==
    /\ w.link[l].device_name # "NULL"
    /\ w.devices[DevIndex(w, w.link[l].device_name)].connection_status = "IN_PROGRESS"

\* C28. Protocol violations are ignored: a handshake frame with an empty payload, or
\* whose first byte is not a registered id and is not 0xAA or 0xFF on a link named
\* after an IN_PROGRESS device, leaves every device, every link and the handler list
\* as they are and writes nothing.
C28_ViolationsIgnored ==
    \A l \in LinkIds(World), io_ok \in BOOLEAN :
        /\ call_command(World, l, HANDSHAKE_COMMAND, <<>>, io_ok) = World
        /\ \A v \in IgnoredValues \ RegisteredIds, rest \in {<<>>, <<0>>} :
            (v \in {170, 255} => ~NamedInProgress(World, l))
                => call_command(World, l, HANDSHAKE_COMMAND, <<v>> \o rest, io_ok) = World

\* Two links a reply can arrive on and be ignored: the worker of one reads on an
\* open port with no device name, another is named after a CONNECTED device and
\* its worker reads too, and no device is IN_PROGRESS.
C28_Witness ==
    /\ \A i \in DOMAIN devices : devices[i].connection_status # "IN_PROGRESS"
    /\ \E l, k \in LinkIds(World) :
        /\ Reading(l) /\ link[l].device_name = "NULL"
        /\ Reading(k) /\ link[k].device_name # "NULL"
        /\ devices[DevIndex(World, link[k].device_name)].connection_status = "CONNECTED"

-----------------------------------------------------------------------------
(* SpecRx: one link from its construction on; the device on its port sends a byte
   stream that the worker reads in chunks, decodes and dispatches *)

LED_COMMAND == 2

\* SerialMessageHandler.__init__: the dispatch table is empty and the worker
\* thread has been started
NewHandler(port) == [NewLink(port) EXCEPT !.command_map = {}]

\* the line call_command logs when no handler is registered for the command
NoHandler(command_id) ==
    IF command_id = HANDSHAKE_COMMAND THEN "NoHandler ff" ELSE "NoHandler"

\* call_command letting the exception of a handler through.
call_command_notry(w, l, command_id, payload, io_ok) ==
    IF command_id \in w.link[l].command_map
    THEN IF command_id = HANDSHAKE_COMMAND
         THEN [w |-> call_command(w, l, command_id, payload, io_ok),
               log |-> <<>>, raised |-> FALSE]
         ELSE [w |-> w, log |-> <<>>, raised |-> TRUE]
    ELSE [w |-> w, log |-> <<NoHandler(command_id)>>, raised |-> FALSE]

\* call_command with its try/except: the handshake handler runs to its end; the
\* handler the application registered for another command raises, which is
\* caught and logged; without a handler the frame is logged and dropped
call_command_try(w, l, command_id, payload, io_ok) ==
    IF command_id \in w.link[l].command_map
    THEN IF command_id = HANDSHAKE_COMMAND
         THEN [w |-> call_command(w, l, command_id, payload, io_ok),
               log |-> <<>>, raised |-> FALSE]
         ELSE [w |-> w, log |-> <<"HandlerError">>, raised |-> FALSE]
    ELSE [w |-> w, log |-> <<NoHandler(command_id)>>, raised |-> FALSE]

\* process_data(data) on link l, call_command being run on each frame when its
\* last byte is processed; s holds the decoder fields d, the manager's objects w,
\* the frames handed to call_command, the log, and whether an exception has left
\* the loop (the decoder then stays as it was at the call)
RECURSIVE dispatch_loop(_, _, _, _)
dispatch_loop(s, l, data, io_ok) ==
    IF data = <<>> \/ s.raised THEN s
    ELSE LET r == process_byte([d |-> s.d, out |-> <<>>, log |-> <<>>, raised |-> FALSE],
                               Head(data))
         IN  IF r.out = <<>>
             THEN dispatch_loop([s EXCEPT !.d = r.d, !.log = @ \o r.log,
                                          !.raised = r.raised],
                                l, Tail(data), io_ok)
             ELSE LET f == r.out[1]
                      c == call_command_try(s.w, l, f[1], f[2], io_ok)
                  IN  IF c.raised
                      THEN [s EXCEPT !.d = add_to_buffer(s.d, Head(data)),
                                     !.out = Append(@, f),
                                     !.raised = TRUE]
                      ELSE dispatch_loop([s EXCEPT !.d = r.d, !.w = c.w,
                                                   !.out = Append(@, f),
                                                   !.log = @ \o r.log \o c.log],
                                         l, Tail(data), io_ok)

\* read_data on link l when data is waiting: process_data, and the except clause
\* that logs whatever leaves it
read_and_process(w, l, d, data, io_ok) ==
    LET s == dispatch_loop([d |-> d, w |-> w, out |-> <<>>, log |-> <<>>,
                            raised |-> FALSE], l, data, io_ok)
    IN  IF s.raised THEN [s EXCEPT !.log = Append(@, "ReadError")] ELSE s

\* frames that are hit by a bit flip, and frames sent intact after them
RxBadFrames == {<<LED_COMMAND, <<200>>>>, <<HANDSHAKE_COMMAND, <<3>>>>}

RxGoodFrames == {<<HANDSHAKE_COMMAND, <<3>>>>, <<LED_COMMAND, <<>>>>}

\* length bytes outside 4..MAX_BUFFER_SIZE
RxBadLengths == {0, 3, MAX_BUFFER_SIZE + 1, 255}

\* two frames sent intact, the first one for the application's handler
RxHandlerCases ==
    {Case("frames", <<f, g>>, <<>>, 0, 0) :
        f \in {<<LED_COMMAND, <<>>>>, <<LED_COMMAND, <<200>>>>}, g \in RxGoodFrames}

\* a frame of five bytes with one bit flipped in its length, command, payload or
\* checksum byte, then a frame sent intact
RxFlipCases ==
    {Case("flip", <<f, g>>, <<>>, i, b) :
        f \in RxBadFrames, g \in RxGoodFrames, i \in 2..5, b \in 0..7}

\* a start byte and a length byte that is out of range, then a frame sent intact
RxLengthCases ==
    {Case("length", <<g>>, <<START_BYTE, L>>, 0, 0) : g \in RxGoodFrames, L \in RxBadLengths}

RxCases == RxHandlerCases \cup RxFlipCases \cup RxLengthCases

\* discover_devices has constructed the handler of its first port (line 169)
InitRx ==
    /\ tc \in RxCases
    /\ phase = "encode"
    /\ encoded = <<>>
    /\ wire = <<>>
    /\ dec = NewDecoder
    /\ emitted = <<>>
    /\ events = <<>>
    /\ devices = InitialDevices
    /\ handlers = <<>>
    /\ link = <<NewHandler("COM1")>>
    /\ pc = "construct"

\* register_command(command_id, handler_function): discover_devices registers the
\* handshake handler and appends the handler to its list (lines 171-172); the
\* application registers its own handler for another command later on
register_command(l, command_id) ==
    /\ l \in LinkIds(World)
    /\ command_id \notin link[l].command_map
    /\ (command_id = HANDSHAKE_COMMAND) = (pc = "construct")
    /\ link' = [link EXCEPT ![l].command_map = @ \cup {command_id}]
    /\ handlers' = IF command_id = HANDSHAKE_COMMAND THEN Append(handlers, l) ELSE handlers
    /\ pc' = IF command_id = HANDSHAKE_COMMAND THEN "discover" ELSE pc
    /\ UNCHANGED devices
    /\ UNCHANGED codecVars

\* read_data: the worker reads the n bytes waiting on the port and process_data
\* decodes and dispatches them
RxRead(l, n, io_ok) ==
    /\ l \in LinkIds(World)
    /\ Reading(l)
    /\ phase = "feed"
    /\ n <= Len(wire)
    /\ io_ok \/ read_and_process(World, l, dec, SubSeq(wire, 1, n), TRUE).w.tx # <<>>
    /\ LET s == read_and_process(World, l, dec, SubSeq(wire, 1, n), io_ok)
       IN  /\ dec' = s.d
           /\ emitted' = emitted \o s.out
           /\ events' = events \o s.log
           /\ Install(s.w)
    /\ wire' = SubSeq(wire, n + 1, Len(wire))
    /\ UNCHANGED <<tc, phase, encoded, pc>>

NextRx ==
    \/ \E l \in LinkIds(World), c \in {HANDSHAKE_COMMAND, LED_COMMAND} : register_command(l, c)
    \/ \E l \in LinkIds(World), ok \in BOOLEAN : open_connection(l, ok)
    \/ \E l \in LinkIds(World), ok \in ReopenOutcomes : reconnect(l, ok)
    \/ Encode
    \/ \E l \in LinkIds(World), n \in 1..MaxChunk, io_ok \in BOOLEAN : RxRead(l, n, io_ok)

SpecRx == InitRx /\ [][NextRx]_vars

-----------------------------------------------------------------------------
(* Properties of dispatch and of rejected frames, checked under SpecRx *)

Logged(line) == \E k \in DOMAIN events : events[k] = line

\* the chunks the worker of link l may read next, and what reading one gives when
\* the port takes every write
NextChunks == {SubSeq(wire, 1, n) : n \in 1..(IF Len(wire) < MaxChunk THEN Len(wire) ELSE MaxChunk)}

\* reading any next chunk leaves the port of link l open and its worker running,
\* and no exception leaves process_data
StaysOpen(l) ==
    \A data \in NextChunks :
        LET s == read_and_process(World, l, dec, data, TRUE)
        IN  ~s.raised /\ s.w.link[l].is_open /\ s.w.link[l].running

\* C21. Handler exceptions are contained: when the handler registered for a decoded
\* frame raises, nothing leaves process_data; the worker keeps running and the port
\* stays open, the decoder is back in WAITING_FOR_START after the frame, and the
\* frames that follow on the link are decoded and handed to call_command in turn.
C21_HandlerExceptions ==
    (phase = "feed" /\ tc.kind = "frames") =>
        /\ ~Logged("ReadError")
        /\ IsPrefix(emitted, tc.frames)
        /\ wire = <<>> => emitted = tc.frames /\ dec.message_state = "WAITING_FOR_START"
        /\ \A l \in LinkIds(World) : Reading(l) => StaysOpen(l)

\* The application's handler has raised on the first frame, and the handshake frame
\* sent after it was decoded and dispatched: led is IN_PROGRESS on the link, whose
\* worker is still reading.
C21_Witness ==
    /\ Fed /\ tc.kind = "frames"
    /\ Logged("HandlerError")
    /\ emitted = tc.frames
    /\ dec.message_state = "WAITING_FOR_START"
    /\ \E l \in LinkIds(World), i \in DOMAIN devices :
        /\ Reading(l)
        /\ devices[i].connection_status = "IN_PROGRESS" /\ BoundTo(World, i, l)

\* the decoder rejects the first frame of the case: one bit is flipped after its
\* length byte, or its length byte is out of range
RejectCase == (tc.kind = "flip" /\ tc.flipAt >= 3) \/ tc.kind = "length"

\* C30. A bad frame never kills the link: when the decoder rejects a frame for its
\* checksum or its length byte, the port stays open and the worker keeps running;
\* once the rejected bytes are processed the decoder is in WAITING_FOR_START, and
\* the valid frame that follows them is decoded and handed to call_command, alone;
\* more generally a valid frame read while the decoder is in WAITING_FOR_START is
\* always decoded and dispatched.
C30_BadFrame ==
    /\ (phase = "feed" /\ RejectCase) =>
        /\ IsPrefix(emitted, <<tc.frames[Len(tc.frames)]>>)
        /\ wire = <<>> =>
            /\ emitted = <<tc.frames[Len(tc.frames)]>>
            /\ dec.message_state = "WAITING_FOR_START"
            /\ Logged("ChecksumMismatch") \/ Logged("InvalidLength")
    /\ (phase = "feed" /\ tc.kind \in {"flip", "length"}) =>
        \A l \in LinkIds(World) : Reading(l) => StaysOpen(l)
    /\ (phase = "feed" /\ dec.message_state = "WAITING_FOR_START") =>
        \A g \in RxGoodFrames, l \in LinkIds(World) :
            LET s == read_and_process(World, l, dec,
                                      format_message(g[1], g[2]).message, TRUE)
            IN  s.out = <<g>> /\ s.d.message_state = "WAITING_FOR_START"

\* A frame with a flipped payload bit was rejected for its checksum, the handshake
\* frame after it was decoded and dispatched, and the worker is still reading.
C30_Witness ==
    /\ Fed /\ tc.kind = "flip" /\ tc.flipAt = 4
    /\ events = <<"ChecksumMismatch">>
    /\ emitted = << <<HANDSHAKE_COMMAND, <<3>>>> >>
    /\ dec.message_state = "WAITING_FOR_START"
    /\ \E l \in LinkIds(World), i \in DOMAIN devices :
        /\ Reading(l)
        /\ devices[i].connection_status = "IN_PROGRESS" /\ BoundTo(World, i, l)

\* C23 as stated. Dispatch table is written before the worker starts: no step of a
\* link's worker (opening the port, reading, decoding, dispatching) happens before
\* the handler for 0xFF is registered, so no handshake frame is dropped for want of
\* a handler.
C23_TableBeforeWorker ==
    /\ \A l \in LinkIds(World) : link[l].started => HANDSHAKE_COMMAND \in link[l].command_map
    /\ ~Logged("NoHandler ff")

-----------------------------------------------------------------------------
(* SpecRace: send_handshake_response taken one assignment at a time, on the workers
   of two links, next to the calls that reset the registry *)

\* first payload bytes of the handshake frames the two devices send
RaceValues == {3, 170, 255}

\* send_handshake_response from its start to its first assignment to the registry:
\* the line the worker of link l executes next for the payload byte v, and the
\* entry it has picked; AtLoop when the handler returns without an assignment
handshake_entry(w, l, v) ==
    IF v \in {w.devices[i].id : i \in DOMAIN w.devices}
    THEN [line |-> 93,
          dev |-> CHOOSE k \in DOMAIN w.devices :
                    /\ w.devices[k].id = v
                    /\ \A j \in 1..(k - 1) : w.devices[j].id # v]
    ELSE IF v \in {170, 255} /\ w.link[l].device_name # "NULL"
    THEN LET i == DevIndex(w, w.link[l].device_name)
         IN  IF w.devices[i].connection_status = "IN_PROGRESS"
             THEN [line |-> IF v = 170 THEN 113 ELSE 127, dev |-> i]
             ELSE AtLoop
    ELSE AtLoop

\* the line of send_handshake_response the worker of link l is at, executed
handshake_line(w, l, io_ok) ==
    LET i == w.link[l].at.dev
        line == w.link[l].at.line
    IN  CASE line = 93 -> [w EXCEPT !.devices[i].connection_status = "IN_PROGRESS",
                                    !.link[l].at.line = 94]
          [] line = 94 -> [w EXCEPT !.devices[i].port_number = w.link[l].port,
                                    !.link[l].at.line = 95]
          [] line = 95 -> [w EXCEPT !.devices[i].thread = l,
                                    !.link[l].at.line = 96]
          [] line = 96 -> [w EXCEPT !.devices[i].handler = l,
                                    !.link[l].at.line = 99]
          [] line = 99 -> send_handshake(
                            set_device([w EXCEPT !.link[l].at = AtLoop], l, w.devices[i].name),
                            l, <<w.devices[i].id>>, io_ok)
          [] line = 113 -> [w EXCEPT !.devices[i].connection_status = "CONNECTED",
                                     !.link[l].at = AtLoop]
          [] line = 127 -> [w EXCEPT !.devices[i].connection_status = "NOT_CONNECTED",
                                     !.link[l].at = AtLoop]
          [] OTHER -> w

\* the worker of link l has read the frame (0xFF, [v]) and runs the handler up to
\* its first assignment
HandshakeBegin(l, v) ==
    /\ l \in LinkIds(World)
    /\ Reading(l)
    /\ handshake_entry(World, l, v) # AtLoop
    /\ link' = [link EXCEPT ![l].at = handshake_entry(World, l, v)]
    /\ UNCHANGED <<devices, handlers, pc>>
    /\ UNCHANGED codecVars

\* the worker of link l executes its next line of the handler
HandshakeStep(l, io_ok) ==
    /\ l \in LinkIds(World)
    /\ link[l].at # AtLoop
    /\ io_ok \/ (link[l].at.line = 99 /\ link[l].is_open)
    /\ Install(handshake_line(World, l, io_ok))
    /\ UNCHANGED pc
    /\ UNCHANGED codecVars

NextRace ==
    \/ \E l \in LinkIds(World), ok \in BOOLEAN : open_connection(l, ok)
    \/ \E l \in LinkIds(World), ok \in ReopenOutcomes : reconnect(l, ok)
    \/ \E l \in LinkIds(World), v \in RaceValues : HandshakeBegin(l, v)
    \/ \E l \in LinkIds(World), io_ok \in BOOLEAN : HandshakeStep(l, io_ok)
    \/ DiscoverEnd
    \/ DiscoverStart(<<>>)
    \/ \E name \in OpNames : ConnectStart(name, <<>>)

SpecRace == InitWorker /\ [][NextRace]_vars

-----------------------------------------------------------------------------
(* Properties of the registry under concurrent handlers, checked under SpecRace *)

\* no worker is inside send_handshake_response
Quiescent == \A l \in LinkIds(World) : link[l].at = AtLoop

\* C24 as stated. Registry mutations are serialized: whenever no handler is in the
\* middle of an update, a device that has a bound link has that link's port as its
\* bound port, never the port of one link with the link object of another.
C24_BoundPortMatchesLink ==
    Quiescent =>
        \A i \in DOMAIN devices :
            devices[i].handler # NoLink =>
                devices[i].port_number = link[devices[i].handler].port

\* C25 as stated. Transition predicates are re-checked atomically: a device is
\* CONNECTED only by a step taken while it is IN_PROGRESS, so whenever no handler is
\* in the middle of an update no device is CONNECTED without a bound link.
C25_ConnectedIsBound ==
    Quiescent =>
        \A i \in DOMAIN devices :
            devices[i].connection_status = "CONNECTED" => devices[i].handler # NoLink

-----------------------------------------------------------------------------
(* SpecCancel: the loop of run() with the sleep of its reconnect branch as a place
   of its own, on the workers of two links that are stopped at any moment;
   SpecCancelFair adds that a worker thread that can take a step eventually does *)

WorkerLinks == {1, 2}

\* the frame a device sends while these workers run
CancelFrames == {<<HANDSHAKE_COMMAND, <<3>>>>}

\* the worker sleeping in time.sleep(self.reconnect_delay)
AtSleep == [line |-> 98, dev |-> 0]

\* run(): the test of line 97 has passed and the worker goes to sleep
reconnect_sleep(l) ==
    /\ l \in LinkIds(World)
    /\ ReconnectEligible(World, l)
    /\ link' = [link EXCEPT ![l].at = AtSleep]
    /\ UNCHANGED <<devices, handlers, pc>>
    /\ UNCHANGED codecVars

\* run(): the sleep is over; the attempt is counted and open_connection is called
\* (lines 99-101), then the loop goes on
reconnect_wake(l, ok) ==
    /\ l \in LinkIds(World)
    /\ link[l].at = AtSleep /\ ~link[l].exited
    /\ link' = [link EXCEPT ![l].at = AtLoop, ![l].is_open = ok, ![l].running = ok,
                            ![l].reconnect_attempts = IF ok THEN 0 ELSE @ + 1]
    /\ UNCHANGED <<devices, handlers, pc>>
    /\ UNCHANGED codecVars

\* the steps of the worker thread of link l
WorkerStep(l) ==
    \/ \E ok \in BOOLEAN : open_connection(l, ok)
    \/ reconnect_sleep(l)
    \/ \E ok \in BOOLEAN : reconnect_wake(l, ok)
    \/ read_error(l)
    \/ \E frame \in CancelFrames, io_ok \in BOOLEAN : read_data(l, frame, io_ok)
    \/ worker_exit(l)

NextCancel ==
    \/ \E l \in WorkerLinks : WorkerStep(l)
    \/ DiscoverEnd
    \/ \E l \in LinkIds(World), joined \in BOOLEAN : Stop(l, joined)

SpecCancel == InitWorker /\ [][NextCancel]_vars

SpecCancelFair == SpecCancel /\ \A l \in WorkerLinks : WF_vars(WorkerStep(l))

-----------------------------------------------------------------------------
(* Properties of cancellation, checked under SpecCancel and SpecCancelFair *)

\* C26 as stated. Cancellation is observed between reconnect sleeps: once the
\* cancellation signal of a link is set, its worker, which has opened or tried to
\* open the port before, makes no further attempt to open it, also when the signal
\* was set while the worker slept in its reconnect delay: no step counts an attempt
\* or turns a closed port into an open one.
C26_NoReopenAfterCancel ==
    [][\A l \in WorkerLinks :
        (link[l].thread_exit /\ link[l].started) =>
            /\ link'[l].reconnect_attempts = link[l].reconnect_attempts
            /\ link'[l].is_open => link[l].is_open]_vars

\* C27. Worker termination: once the cancellation signal of a link is set, its
\* worker, wherever it is (reading, after an I/O error, asleep before a reconnect,
\* dormant at the cap, or not yet past its first open), eventually leaves run(),
\* provided the thread is scheduled.
C27_WorkerTerminates ==
    \A l \in WorkerLinks : link[l].thread_exit ~> link[l].exited

\* Both workers have left run() after their cancellation, one of them from the
\* dormant state with its reconnect attempts used up.
C27_Witness ==
    /\ \A l \in WorkerLinks : link[l].thread_exit /\ link[l].exited
    /\ \E l \in WorkerLinks :
        link[l].started /\ link[l].reconnect_attempts = max_reconnect_attempts

====
